---------------------------- MODULE Spec2Model ----------------------------
(***************************************************************************)
(* Tenant-scoped authentication and user administration of the hospital    *)
(* backend: routers/auth.py (login, register_hospital) and                  *)
(* routers/users.py (list_users, create_user, toggle_user_status, get_me). *)
(*                                                                         *)
(* Text is a sequence of one-character strings, so that strip() and        *)
(* lower() are computed; a password is a sequence of Unicode code points,  *)
(* so that the UTF-8 byte length is computed and differs from the          *)
(* character count.  A nullable Boolean column holds "true", "false" or    *)
(* "null".                                                                 *)
(***************************************************************************)
EXTENDS Integers, Sequences, FiniteSets, TLC

VARIABLES
    hospitals,   \* committed Hospital rows
    users,       \* committed User rows
    audit,       \* committed AuditLog rows, in insertion order
    clock,       \* datetime.utcnow(), as a counter
    hospSeq,     \* the Hospital.id sequence
    userSeq,     \* the User.id sequence
    pc,          \* position of each in-flight register_hospital request
    req,         \* locals of each in-flight register_hospital request
    dbEdits,     \* rows changed so far outside the application
    last         \* the response just sent, with its request; NoRequest after a
                 \* step that sends none

vars == <<hospitals, users, audit, clock, hospSeq, userSeq, pc, req, dbEdits, last>>

---------------------------------------------------------------------------
(* Bounds of the model. *)
MaxHospitals == 2
MaxUsers == 3
MaxAudit == 1
MaxDbEdits == 1
MaxSessions == 2

(* The two register_hospital requests that may be in flight together. *)
Requests == {"r1", "r2"}

---------------------------------------------------------------------------
(* str.strip() and str.lower() *)

LowerChar(c) ==
    CASE c = "A" -> "a"
      [] c = "B" -> "b"
      [] c = "H" -> "h"
      [] OTHER -> c

Lower(s) == [i \in 1..Len(s) |-> LowerChar(s[i])]

SetMin(S) == CHOOSE x \in S : \A y \in S : x <= y
SetMax(S) == CHOOSE x \in S : \A y \in S : x >= y

Strip(s) ==
    LET keep == {i \in 1..Len(s) : s[i] # " "}
    IN  IF keep = {} THEN <<>> ELSE SubSeq(s, SetMin(keep), SetMax(keep))

(* norm_hosp_id = str(payload.hospital_id).strip() *)
NormHospId(raw) == Strip(raw)

(* norm_username = str(payload.username).strip().lower() *)
NormUsernameNoLower(raw) == Strip(raw)
NormUsername(raw) == Lower(Strip(raw))

---------------------------------------------------------------------------
(* Passwords, len(raw_password.encode("utf-8")) > 72, and pwd_ctx *)

BcryptMaxBytes == 72

Utf8Bytes(cp) ==
    IF cp < 128 THEN 1 ELSE IF cp < 2048 THEN 2 ELSE IF cp < 65536 THEN 3 ELSE 4

RECURSIVE Utf8LenFrom(_, _)
Utf8LenFrom(pw, i) ==
    IF i > Len(pw) THEN 0 ELSE Utf8Bytes(pw[i]) + Utf8LenFrom(pw, i + 1)

Utf8Len(pw) == Utf8LenFrom(pw, 1)

PasswordTooLongByChars(pw) == Len(pw) > BcryptMaxBytes
PasswordTooLong(pw) == Utf8Len(pw) > BcryptMaxBytes

Rep(cp, n) == [i \in 1..n |-> cp]

PwGood    == <<112, 119>>                     \* "pw": 2 bytes
PwEmoji72 == Rep(128512, 18)                  \* 18 characters, 72 bytes
PwEmoji73 == Rep(128512, 18) \o <<97>>        \* 19 characters, 73 bytes

Hash(pw) == <<"bcrypt">> \o pw
Verify(raw, hash) == hash = Hash(raw)

---------------------------------------------------------------------------
(* Nullable Boolean columns *)

Tri == {"true", "false", "null"}

(* `x is False` *)
IsFalseOrNull(flag) == flag # "true"
IsFalse(flag) == flag = "false"

(* `not x` *)
NotFlagDisable(flag) == "false"
NotFlag(flag) == IF flag = "true" THEN "false" ELSE "true"

(* Column defaults of the Hospital and User tables. *)
DefaultActive == "true"
DefaultStatus == "true"

---------------------------------------------------------------------------
(* Inputs *)

HospIdInputs == { <<"h">>, <<" ", "H">>, <<"b">> }       \* register_hospital
LoginHospIds == { <<"H", " ">>, <<"b">> }                \* login
UsernameInputs == { <<"A", " ">>, <<"b">> }              \* register, create_user
LoginUsernames == { <<" ", "a">>, <<"B">> }              \* login
StorePasswords == { PwGood, PwEmoji73 }
LoginPasswords == { PwGood, PwEmoji72, PwEmoji73 }
RoleInputs == { "doctor", "nurse" }
Roles == { "admin", "doctor", "staff" }
Secrets == { "vitasage-bootstrap-secret", "guess" }

(* settings.register_secret *)
RegisterSecret == "vitasage-bootstrap-secret"

---------------------------------------------------------------------------
(* Responses *)

NoToken == [user_id |-> 0, role |-> "", hospital_id |-> <<>>]

NoRequest ==
    [ op |-> "none", code |-> 0, detail |-> "",
      hospital_id |-> <<>>, username |-> <<>>, password |-> <<>>,
      secret |-> "", role |-> "",
      caller |-> 0, target |-> 0, old |-> "", prevOld |-> "", denied |-> 0,
      audits |-> 0, hashed |-> FALSE, wrote |-> FALSE,
      token |-> NoToken, result |-> {}, created |-> 0, pk |-> 0 ]

InvalidCredentials == "Invalid credentials"

---------------------------------------------------------------------------
(* Queries *)

(* select(Hospital).where(func.lower(Hospital.hospital_id) == norm.lower()) *)
HospitalsByIdExact(hs, norm) == {h \in hs : h.hospital_id = norm}
HospitalsById(hs, norm) == {h \in hs : Lower(h.hospital_id) = Lower(norm)}

(* select(User).where(func.lower(User.username) == norm_username,
                      User.hospital_id == hospital.id) *)
UsersByName(us, norm, hid) ==
    {u \in us : Lower(u.username) = norm /\ u.hospital_id = hid}

---------------------------------------------------------------------------
Init ==
    /\ hospitals = {}
    /\ users = {}
    /\ audit = <<>>
    /\ clock = 1
    /\ hospSeq = 1
    /\ userSeq = 1
    /\ pc = [r \in Requests |-> "idle"]
    /\ req = [r \in Requests |-> NoRequest]
    /\ dbEdits = 0
    /\ last = NoRequest

---------------------------------------------------------------------------
(* POST /auth/login *)

LoginRequest(hid, un, pw) ==
    [NoRequest EXCEPT !.op = "login", !.hospital_id = hid, !.username = un,
                      !.password = pw]

(* Ghost fields of a response, read off the transition itself. *)
AuditsAdded == Len(audit') - Len(audit)
Wrote == <<hospitals', users', audit'>> # <<hospitals, users, audit>>

(* A 401 of login that names what was wrong. *)
LoginRejectedNamingCause(rq) ==
    /\ UNCHANGED <<hospitals, users, audit, clock>>
    /\ last' = [rq EXCEPT !.code = 401, !.detail = "Hospital not found",
                          !.audits = AuditsAdded, !.wrote = Wrote]

LoginRejected(rq) ==
    /\ UNCHANGED <<hospitals, users, audit, clock>>
    /\ last' = [rq EXCEPT !.code = 401, !.detail = InvalidCredentials,
                          !.audits = AuditsAdded, !.wrote = Wrote]

LoginFailedAudit(nh, nu) ==
    [user_id |-> 0, action |-> "LOGIN_FAILED",
     details |-> [username |-> nu, hospital_id |-> nh]]

LoginSuccessAudit(u) ==
    [user_id |-> u.id, action |-> "LOGIN_SUCCESS",
     details |-> [username |-> <<>>, hospital_id |-> <<>>]]

(* A failed login that stamps the users of that name. *)
LoginFailedStampsUser(rq, nh, nu, verified) ==
    /\ audit' = Append(audit, LoginFailedAudit(nh, nu))
    /\ users' = {IF Lower(u.username) = nu THEN [u EXCEPT !.last_login = clock]
                                           ELSE u : u \in users}
    /\ UNCHANGED <<hospitals, clock>>
    /\ last' = [rq EXCEPT !.code = 401, !.detail = InvalidCredentials,
                          !.audits = AuditsAdded, !.hashed = verified,
                          !.wrote = Wrote]

LoginFailed(rq, nh, nu, verified) ==
    /\ audit' = Append(audit, LoginFailedAudit(nh, nu))
    /\ UNCHANGED <<hospitals, users, clock>>
    /\ last' = [rq EXCEPT !.code = 401, !.detail = InvalidCredentials,
                          !.audits = AuditsAdded, !.hashed = verified,
                          !.wrote = Wrote]

LoginSucceeded(rq, nh, u) ==
    /\ users' = (users \ {u}) \cup {[u EXCEPT !.last_login = clock]}
    /\ clock' = clock + 1
    /\ audit' = Append(audit, LoginSuccessAudit(u))
    /\ UNCHANGED hospitals
    /\ last' = [rq EXCEPT !.code = 200, !.audits = AuditsAdded,
                          !.hashed = TRUE, !.wrote = Wrote,
                          !.token = [user_id |-> u.id, role |-> u.role,
                                     hospital_id |-> nh]]

(* `hospital.is_active is False` *)
HospitalBlockedIfNull(hospital) == hospital.is_active = "null"
HospitalBlocked(hospital) == IsFalse(hospital.is_active)

LoginUserStep(rq, nh, nu, pw, hospital) ==
    LET found == UsersByName(users, nu, hospital.id)
    IN  \/ /\ found = {}
           /\ LoginFailed(rq, nh, nu, FALSE)
        \/ \E user \in found :
              IF IsFalse(user.status)
              THEN LoginFailed(rq, nh, nu, FALSE)
              ELSE IF ~Verify(pw, user.password_hash)
              THEN LoginFailed(rq, nh, nu, TRUE)
              ELSE LoginSucceeded(rq, nh, user)

Login(hid, un, pw) ==
    LET nh == NormHospId(hid)
        nu == NormUsername(un)
        rq == LoginRequest(hid, un, pw)
        matches == HospitalsById(hospitals, nh)
    IN  /\ IF PasswordTooLong(pw)
           THEN LoginRejected(rq)
           ELSE \/ /\ matches = {}
                   /\ LoginRejected(rq)
                \/ \E hospital \in matches :
                      IF HospitalBlocked(hospital)
                      THEN LoginRejected(rq)
                      ELSE LoginUserStep(rq, nh, nu, pw, hospital)
        /\ UNCHANGED <<hospSeq, userSeq, pc, req, dbEdits>>

---------------------------------------------------------------------------
(* POST /auth/register-hospital.  The handler is split at its awaits: the  *)
(* duplicate pre-check, the flush of the Hospital row, the commit of the   *)
(* Hospital and admin rows, and the refresh of both.  The request record   *)
(* holds the handler's locals norm_hosp_id and norm_username; the record   *)
(* of a rejected request holds the secret and the password given and, once *)
(* the secret is accepted, norm_hosp_id.                                   *)

RegisterRequest(secret, hid, un, pw) ==
    [NoRequest EXCEPT !.op = "register_hospital", !.secret = secret,
                      !.hospital_id = NormHospId(hid),
                      !.username = NormUsername(un), !.password = pw]

(* Unique index of Hospital.hospital_id, compared ignoring case. *)
HospitalIdTaken(hs, norm) == \E h \in hs : Lower(h.hospital_id) = Lower(norm)

(* Unique index of (User.hospital_id, User.username), ignoring case. *)
UsernameTaken(us, hid, norm) ==
    \E u \in us : u.hospital_id = hid /\ Lower(u.username) = Lower(norm)

InFlight == {r \in Requests : pc[r] # "idle"}

RegisterSecretRejectedIfEmpty(secret) == secret = ""
RegisterSecretRejected(secret) == secret # RegisterSecret

RegisterPrecheckExact(hs, norm) == HospitalsByIdExact(hs, norm) # {}
RegisterPrecheck(hs, norm) == HospitalsById(hs, norm) # {}

RegisterRejected(secret, norm, pw, code, detail) ==
    /\ last' = [NoRequest EXCEPT !.op = "register_hospital", !.secret = secret,
                                 !.hospital_id = norm, !.password = pw,
                                 !.code = code, !.detail = detail,
                                 !.wrote = Wrote]
    /\ UNCHANGED <<pc, req>>

RegisterStart(r, secret, hid, un, pw) ==
    LET rq == RegisterRequest(secret, hid, un, pw)
    IN  /\ pc[r] = "idle"
        /\ UNCHANGED <<hospitals, users, audit, clock, hospSeq, userSeq, dbEdits>>
        /\ IF RegisterSecretRejected(secret)
           THEN RegisterRejected(secret, <<>>, pw, 403, "Invalid register secret")
           ELSE IF PasswordTooLong(pw)
           THEN RegisterRejected(secret, rq.hospital_id, pw, 400,
                                 "Password too long")
           ELSE IF RegisterPrecheck(hospitals, rq.hospital_id)
           THEN RegisterRejected(secret, rq.hospital_id, pw, 409,
                                 "Hospital ID already exists")
           ELSE /\ pc' = [pc EXCEPT ![r] = "prechecked"]
                /\ req' = [req EXCEPT ![r] = rq]
                /\ last' = NoRequest

(* The INSERT of a Hospital row waits while another open transaction holds *)
(* an uncommitted row with the same key.                                   *)
FlushBlocked(r) ==
    \E o \in Requests \ {r} :
        /\ pc[o] = "flushed"
        /\ Lower(req[o].hospital_id) = Lower(req[r].hospital_id)

IntegrityErrorCodeServerError == 500
IntegrityErrorCode == 409

RegisterFlush(r) ==
    /\ pc[r] = "prechecked"
    /\ ~FlushBlocked(r)
    /\ UNCHANGED <<hospitals, users, audit, clock, userSeq, dbEdits>>
    /\ hospSeq <= MaxHospitals
    /\ userSeq + Cardinality({o \in Requests : pc[o] = "flushed"}) <= MaxUsers
    /\ IF HospitalIdTaken(hospitals, req[r].hospital_id)
       THEN /\ UNCHANGED hospSeq
            /\ last' = [req[r] EXCEPT !.code = IntegrityErrorCode,
                                      !.detail = "A record with these details already exists",
                                      !.hashed = TRUE, !.wrote = Wrote]
            /\ pc' = [pc EXCEPT ![r] = "idle"]
            /\ req' = [req EXCEPT ![r] = NoRequest]
       ELSE /\ hospSeq' = hospSeq + 1
            /\ pc' = [pc EXCEPT ![r] = "flushed"]
            /\ req' = [req EXCEPT ![r].pk = hospSeq, ![r].hashed = TRUE]
            /\ last' = NoRequest

NewHospital(rq) ==
    [id |-> rq.pk, hospital_id |-> rq.hospital_id, is_active |-> DefaultActive]

NewAdmin(rq, id) ==
    [id |-> id, hospital_id |-> rq.pk, username |-> rq.username,
     password_hash |-> Hash(rq.password), role |-> "admin",
     status |-> DefaultStatus, last_login |-> 0]

RegisterCommit(r) ==
    /\ pc[r] = "flushed"
    /\ hospitals' = hospitals \cup {NewHospital(req[r])}
    /\ users' = users \cup {NewAdmin(req[r], userSeq)}
    /\ userSeq' = userSeq + 1
    /\ UNCHANGED <<audit, clock, hospSeq, dbEdits>>
    /\ last' = NoRequest
    /\ pc' = [pc EXCEPT ![r] = "committed"]
    /\ req' = [req EXCEPT ![r].created = userSeq, ![r].wrote = Wrote]

RegisterRefresh(r) ==
    /\ pc[r] = "committed"
    /\ last' = [req[r] EXCEPT !.code = 201]
    /\ pc' = [pc EXCEPT ![r] = "idle"]
    /\ req' = [req EXCEPT ![r] = NoRequest]
    /\ UNCHANGED <<hospitals, users, audit, clock, hospSeq, userSeq, dbEdits>>

(* The Hospital row a request has flushed and not yet committed. *)
Pending(r) == IF pc[r] = "flushed" THEN {NewHospital(req[r])} ELSE {}

(* `await db.rollback()`: the committed rows once the pending ones are     *)
(* undone.                                                                 *)
RolledBackKeepsPending(rows, pending) == rows \cup pending
RolledBack(rows, pending) == rows

(* `except Exception`: a statement of the try block fails for another      *)
(* reason than a constraint (connection lost, statement timeout); the      *)
(* rollback undoes what is not yet committed.                              *)
RegisterUnexpected(r) ==
    /\ pc[r] \in {"prechecked", "flushed", "committed"}
    /\ hospitals' = RolledBack(hospitals, Pending(r))
    /\ UNCHANGED <<users, audit, clock, hospSeq, userSeq, dbEdits>>
    /\ last' = [req[r] EXCEPT !.code = 500,
                              !.detail = "An unexpected server error occurred",
                              !.wrote = req[r].wrote \/ Wrote]
    /\ pc' = [pc EXCEPT ![r] = "idle"]
    /\ req' = [req EXCEPT ![r] = NoRequest]

---------------------------------------------------------------------------
(* Authorization gate (app.dependencies: get_current_user, require_admin). *)
(* A bearer token names the user it was issued to; a token exists for a    *)
(* user once a login of that user has succeeded.  0 is a missing, forged   *)
(* or expired token.                                                       *)

TokenHolders == {u.id : u \in {x \in users : x.last_login # 0}}
Bearers == {0} \cup TokenHolders

CurrentUsersFromClaims(tok) == {u \in users : u.id = tok}
CurrentUsers(tok) == {u \in users : u.id = tok /\ ~IsFalse(u.status)}

GateCode(tok, adminOnly) ==
    IF CurrentUsers(tok) = {} THEN 401
    ELSE IF adminOnly /\ \E u \in CurrentUsers(tok) : u.role # "admin" THEN 403
    ELSE 0

CurrentUser(tok) == CHOOSE u \in CurrentUsers(tok) : TRUE

GateRejected(rq, code) ==
    /\ UNCHANGED <<hospitals, users, audit, clock, userSeq>>
    /\ last' = [rq EXCEPT !.code = code,
                          !.detail = IF code = 401 THEN "Not authenticated"
                                                   ELSE "Admin access required",
                          !.wrote = Wrote]

(* Depends(require_admin) in list_users, create_user and                   *)
(* toggle_user_status; Depends(get_current_user) in get_me.                *)
RequiresAdminNever(op) == FALSE
RequiresAdmin(op) == op # "get_me"

---------------------------------------------------------------------------
(* GET /users/ *)

UsersOfHospital(us, hid) == {u \in us : u.hospital_id = hid}

ListUsers(tok) ==
    LET rq == [NoRequest EXCEPT !.op = "list_users", !.caller = tok]
        gate == GateCode(tok, RequiresAdmin("list_users"))
    IN  /\ IF gate # 0
           THEN GateRejected(rq, gate)
           ELSE /\ last' = [rq EXCEPT !.code = 200,
                                      !.result = {u.id : u \in UsersOfHospital(
                                                     users, CurrentUser(tok).hospital_id)}]
                /\ UNCHANGED <<hospitals, users, audit, clock, userSeq>>
        /\ UNCHANGED <<hospSeq, pc, req, dbEdits>>

---------------------------------------------------------------------------
(* POST /users/.  The record of a request the gate rejects holds the       *)
(* caller alone; that of one rejected for its role or password holds both. *)

NewUserHospital(cu) == cu.hospital_id

NewUser(cu, id, un, pw, role) ==
    [id |-> id, hospital_id |-> NewUserHospital(cu),
     username |-> NormUsername(un), password_hash |-> Hash(pw), role |-> role,
     status |-> DefaultStatus, last_login |-> 0]

(* The IntegrityError of the commit is not caught: the framework answers   *)
(* 500 and get_db closes the session, which discards the pending row.      *)
UnhandledErrorCode == 500

(* get_db: `finally: await session.close()`, the rows committed once the   *)
(* session is closed with these rows pending: they are discarded.          *)
SessionClosed(us, pending) == us

CreateUser(tok, un, pw, role) ==
    LET call == [NoRequest EXCEPT !.op = "create_user", !.caller = tok]
        bad == [call EXCEPT !.password = pw, !.role = role]
        rq == [bad EXCEPT !.username = un]
        gate == GateCode(tok, RequiresAdmin("create_user"))
        cu == CurrentUser(tok)
        row == NewUser(cu, userSeq, un, pw, role)
    IN  /\ IF gate # 0
           THEN GateRejected(call, gate)
           ELSE IF role \notin Roles
           THEN /\ UNCHANGED <<hospitals, users, audit, clock, userSeq>>
                /\ last' = [bad EXCEPT !.code = 400, !.detail = "Invalid role",
                                       !.wrote = Wrote]
           ELSE IF PasswordTooLong(pw)
           THEN /\ UNCHANGED <<hospitals, users, audit, clock, userSeq>>
                /\ last' = [bad EXCEPT !.code = 400, !.detail = "Password too long",
                                       !.wrote = Wrote]
           ELSE /\ UNCHANGED <<hospitals, audit, clock>>
                /\ IF UsernameTaken(users, row.hospital_id, row.username)
                   THEN /\ users' = SessionClosed(users, {row})
                        /\ UNCHANGED userSeq
                        /\ last' = [rq EXCEPT !.code = UnhandledErrorCode,
                                              !.detail = "Internal Server Error",
                                              !.hashed = TRUE, !.wrote = Wrote]
                   ELSE /\ userSeq <= MaxUsers
                        /\ userSeq' = userSeq + 1
                        /\ users' = users \cup {row}
                        /\ last' = [rq EXCEPT !.code = 201, !.hashed = TRUE,
                                              !.wrote = Wrote, !.created = row.id,
                                              !.result = {row.id}]
        /\ UNCHANGED <<hospSeq, pc, req, dbEdits>>

---------------------------------------------------------------------------
(* PATCH /users/{user_id}/toggle *)

ToggleTargetsAnyHospital(us, user_id, hid) == {u \in us : u.id = user_id}
ToggleTargets(us, user_id, hid) ==
    {u \in us : u.id = user_id /\ u.hospital_id = hid}

(* The status of the row with this id before the request, "" without one. *)
StatusOf(user_id) ==
    IF \E u \in users : u.id = user_id
    THEN (CHOOSE u \in users : u.id = user_id).status ELSE ""

(* The status a toggle found, when the request before it was a successful  *)
(* toggle of the same user.                                                *)
PreviousOld(user_id) ==
    IF last.op = "toggle_user_status" /\ last.code = 200 /\ last.target = user_id
    THEN last.old ELSE ""

(* The user a toggle enables, when the request before it bore that user's  *)
(* token and was answered 401.                                             *)
DeniedBefore(user_id) ==
    IF last.code = 401 /\ last.caller = user_id /\ StatusOf(user_id) = "false"
    THEN user_id ELSE 0

(* The caller, when the request before this one was the toggle that        *)
(* enabled the caller after such a 401.                                    *)
EnabledBefore(tok) ==
    IF last.op = "toggle_user_status" /\ last.code = 200 /\ last.denied = tok
    THEN tok ELSE 0

ToggleUserStatus(tok, user_id) ==
    LET rq == [NoRequest EXCEPT !.op = "toggle_user_status", !.caller = tok,
                                !.target = user_id, !.old = StatusOf(user_id)]
        gate == GateCode(tok, RequiresAdmin("toggle_user_status"))
        found == ToggleTargets(users, user_id, CurrentUser(tok).hospital_id)
    IN  /\ IF gate # 0
           THEN GateRejected(rq, gate)
           ELSE \/ /\ found = {}
                   /\ UNCHANGED <<hospitals, users, audit, clock, userSeq>>
                   /\ last' = [rq EXCEPT !.code = 404, !.detail = "User not found",
                                         !.wrote = Wrote]
                \/ \E user \in found :
                      /\ users' = (users \ {user}) \cup
                                    {[user EXCEPT !.status = NotFlag(user.status)]}
                      /\ UNCHANGED <<hospitals, audit, clock, userSeq>>
                      /\ last' = [rq EXCEPT !.code = 200,
                                            !.prevOld = PreviousOld(user_id),
                                            !.denied = DeniedBefore(user_id),
                                            !.wrote = Wrote, !.result = {user.id}]
        /\ UNCHANGED <<hospSeq, pc, req, dbEdits>>

---------------------------------------------------------------------------
(* GET /users/me *)

GetMe(tok) ==
    LET rq == [NoRequest EXCEPT !.op = "get_me", !.caller = tok]
        gate == GateCode(tok, RequiresAdmin("get_me"))
    IN  /\ IF gate # 0
           THEN GateRejected(rq, gate)
           ELSE /\ last' = [rq EXCEPT !.code = 200,
                                      !.denied = EnabledBefore(tok),
                                      !.result = {CurrentUser(tok).id}]
                /\ UNCHANGED <<hospitals, users, audit, clock, userSeq>>
        /\ UNCHANGED <<hospSeq, pc, req, dbEdits>>

---------------------------------------------------------------------------
(* Rows changed outside the application: a hospital is deactivated by      *)
(* setting its active flag, and a flag column may be left unset.           *)

DbSetHospitalActive(h, flag) ==
    /\ dbEdits < MaxDbEdits
    /\ h.is_active # flag
    /\ hospitals' = (hospitals \ {h}) \cup {[h EXCEPT !.is_active = flag]}
    /\ dbEdits' = dbEdits + 1
    /\ last' = [NoRequest EXCEPT !.op = "db_edit"]
    /\ UNCHANGED <<users, audit, clock, hospSeq, userSeq, pc, req>>

DbSetUserStatus(u, flag) ==
    /\ dbEdits < MaxDbEdits
    /\ u.status # flag
    /\ users' = (users \ {u}) \cup {[u EXCEPT !.status = flag]}
    /\ dbEdits' = dbEdits + 1
    /\ last' = [NoRequest EXCEPT !.op = "db_edit"]
    /\ UNCHANGED <<hospitals, audit, clock, hospSeq, userSeq, pc, req>>

---------------------------------------------------------------------------
(* Requests served one at a time, the datastore changed by them alone. *)

Idle == InFlight = {}

Handlers ==
    \/ \E hid \in LoginHospIds, un \in LoginUsernames, pw \in LoginPasswords :
          Idle /\ Len(audit) < MaxAudit /\ Login(hid, un, pw)
    \/ \E secret \in Secrets, hid \in HospIdInputs, un \in UsernameInputs,
          pw \in StorePasswords :
          Idle /\ RegisterStart("r1", secret, hid, un, pw)
    \/ RegisterFlush("r1")
    \/ RegisterCommit("r1")
    \/ RegisterRefresh("r1")
    \/ \E tok \in Bearers : Idle /\ ListUsers(tok)
    \/ \E tok \in Bearers, un \in UsernameInputs, pw \in StorePasswords,
          role \in RoleInputs : Idle /\ CreateUser(tok, un, pw, role)
    \/ \E tok \in Bearers, user_id \in 1..MaxUsers :
          Idle /\ ToggleUserStatus(tok, user_id)
    \/ \E tok \in Bearers : Idle /\ GetMe(tok)

Next == Handlers

Spec == Init /\ [][Next]_vars

(* The same, with flag columns also changed outside the application. *)
NextEdited ==
    \/ Handlers
    \/ \E h \in hospitals, flag \in {"false", "null"} :
          Idle /\ DbSetHospitalActive(h, flag)
    \/ \E u \in users : Idle /\ DbSetUserStatus(u, "null")

EditedSpec == Init /\ [][NextEdited]_vars

(* register_hospital requests in flight together. *)
NextConcurrent ==
    \/ \E r \in Requests, secret \in Secrets, hid \in HospIdInputs,
          un \in UsernameInputs, pw \in StorePasswords :
          RegisterStart(r, secret, hid, un, pw)
    \/ \E r \in Requests : RegisterFlush(r)
    \/ \E r \in Requests : RegisterCommit(r)
    \/ \E r \in Requests : RegisterRefresh(r)

ConcurrentSpec == Init /\ [][NextConcurrent]_vars

(* Requests served one at a time but for register_hospital, where a        *)
(* statement of the try block may also fail.                               *)
NextFaulty ==
    \/ Handlers
    \/ NextConcurrent
    \/ \E r \in Requests : RegisterUnexpected(r)

FaultySpec == Init /\ [][NextFaulty]_vars

(* One hospital, its admin and the users the admin creates, with as many   *)
(* audited logins as MaxSessions; the hospital may be deactivated.         *)
NextSession ==
    \/ \E un \in LoginUsernames, pw \in LoginPasswords :
          Idle /\ Len(audit) < MaxSessions /\ Login(<<"H", " ">>, un, pw)
    \/ Idle /\ hospitals = {}
            /\ RegisterStart("r1", RegisterSecret, <<"h">>, <<"A", " ">>, PwGood)
    \/ RegisterFlush("r1")
    \/ RegisterCommit("r1")
    \/ RegisterRefresh("r1")
    \/ \E tok \in Bearers : Idle /\ ListUsers(tok)
    \/ \E tok \in Bearers, role \in {"doctor", "admin"} :
          Idle /\ CreateUser(tok, <<"b">>, PwGood, role)
    \/ \E tok \in Bearers, user_id \in 1..MaxUsers :
          Idle /\ ToggleUserStatus(tok, user_id)
    \/ \E tok \in Bearers : Idle /\ GetMe(tok)
    \/ \E h \in hospitals : Idle /\ DbSetHospitalActive(h, "false")

SessionSpec == Init /\ [][NextSession]_vars

---------------------------------------------------------------------------
(* What the claims speak of. *)

UserById(id) == CHOOSE u \in users : u.id = id
LastAudit == audit[Len(audit)]
LoginDone == last.op = "login"
RegisterDone == last.op = "register_hospital"
CreateDone == last.op = "create_user" /\ last.code \notin {401, 403}
ToggleDone == last.op = "toggle_user_status" /\ last.code \notin {401, 403}

(* Two texts that differ only in letter case or surrounding whitespace. *)
SameUpToCaseAndSpace(a, b) == Lower(Strip(a)) = Lower(Strip(b))

(* The hospitals a login request names, and the enabled users of them it   *)
(* names with their password.                                              *)
NamedHospitals == {h \in hospitals : SameUpToCaseAndSpace(h.hospital_id, last.hospital_id)}
NamedUsers(h) ==
    {u \in users : /\ u.hospital_id = h.id
                   /\ SameUpToCaseAndSpace(u.username, last.username)
                   /\ u.password_hash = Hash(last.password)}

---------------------------------------------------------------------------
(* C1: every login attempt that returns has appended exactly one AuditLog  *)
(* row, LOGIN_SUCCESS on success and LOGIN_FAILED on failure.  The code    *)
(* returns 401 without a row for an oversized password and for an absent   *)
(* or inactive hospital.                                                   *)
C1_OneAuditRowPerLogin ==
    LoginDone =>
        /\ last.audits = 1
        /\ LastAudit.action =
              IF last.code = 200 THEN "LOGIN_SUCCESS" ELSE "LOGIN_FAILED"

(* C2: a login that fails for an absent or inactive hospital, an absent or *)
(* disabled user or a wrong password has committed a LOGIN_FAILED row with *)
(* the normalized username and tenant id when the 401 is returned.  The    *)
(* code writes no row when the hospital is absent or inactive.             *)
C2_FailedLoginAudited ==
    (LoginDone /\ last.code = 401 /\ Utf8Len(last.password) <= BcryptMaxBytes) =>
        /\ last.audits = 1
        /\ LastAudit.action = "LOGIN_FAILED"
        /\ LastAudit.details = [username |-> Lower(Strip(last.username)),
                                hospital_id |-> Strip(last.hospital_id)]

(* C3: a login naming a hospital whose active flag is false fails with the *)
(* generic 401 and issues no token, whatever the username and password.    *)
C3_InactiveHospitalRejected ==
    (LoginDone /\ \E h \in NamedHospitals : h.is_active = "false") =>
        /\ last.code = 401
        /\ last.detail = "Invalid credentials"
        /\ last.token = NoToken

(* C3 witness: the 401 answers the correct password of an enabled user of  *)
(* the inactive hospital.                                                  *)
C3_Witness ==
    /\ LoginDone /\ last.code = 401
    /\ \E h \in NamedHospitals :
          /\ h.is_active = "false"
          /\ \E u \in NamedUsers(h) : u.status = "true"

(* C4 as claimed: a password of more than 72 UTF-8 bytes makes login fail  *)
(* with 401 and create_user and register_hospital with 400, before any     *)
(* hash or verify call and any datastore write.                            *)
C4_OversizedRejectedAsClaimed ==
    (Utf8Len(last.password) > BcryptMaxBytes) =>
        /\ LoginDone => last.code = 401
        /\ CreateDone => last.code = 400
        /\ RegisterDone => last.code = 400
        /\ (LoginDone \/ CreateDone \/ RegisterDone) =>
              ~last.hashed /\ ~last.wrote

(* C4 amended: as claimed, but register_hospital fails with 400 only when  *)
(* the register secret matches; with another secret it fails with 403,     *)
(* which is checked first.                                                 *)
C4_OversizedRejected ==
    (Utf8Len(last.password) > BcryptMaxBytes) =>
        /\ LoginDone => last.code = 401
        /\ CreateDone => last.code = 400
        /\ RegisterDone =>
              last.code = IF last.secret = "vitasage-bootstrap-secret" THEN 400 ELSE 403
        /\ (LoginDone \/ CreateDone \/ RegisterDone) =>
              ~last.hashed /\ ~last.wrote

(* C4 witness: an admin's create_user with a valid role and a password of  *)
(* 19 characters and 73 bytes is answered 400.                             *)
C4_Witness ==
    /\ CreateDone /\ last.code = 400 /\ last.role = "doctor"
    /\ Len(last.password) <= BcryptMaxBytes
    /\ Utf8Len(last.password) > BcryptMaxBytes

(* The hospitals registered under the id a register_hospital request       *)
(* names, other than the one the request created.                          *)
RegisteredBefore ==
    {h \in hospitals : /\ SameUpToCaseAndSpace(h.hospital_id, last.hospital_id)
                       /\ h.id # last.pk}

(* C5 as claimed: a register_hospital call with the valid secret whose id  *)
(* equals, up to case and surrounding whitespace, the id of a hospital     *)
(* registered before fails with 409 and creates no row.                    *)
C5_DuplicateConflictAsClaimed ==
    (RegisterDone /\ last.secret = "vitasage-bootstrap-secret"
        /\ RegisteredBefore # {}) =>
        /\ last.code = 409
        /\ ~last.wrote /\ last.pk = 0 /\ last.created = 0

(* C5 amended: such a call fails with 409 "Hospital ID already exists"     *)
(* when its admin password has at most 72 bytes and with 400 when it has   *)
(* more (the password is validated first); either way it creates no row,   *)
(* and no two hospitals have ids equal up to case.                         *)
C5_DuplicateConflict ==
    /\ \A h1, h2 \in hospitals :
          Lower(h1.hospital_id) = Lower(h2.hospital_id) => h1 = h2
    /\ (RegisterDone /\ last.secret = "vitasage-bootstrap-secret"
           /\ RegisteredBefore # {}) =>
           /\ IF Utf8Len(last.password) > BcryptMaxBytes
              THEN last.code = 400
              ELSE last.code = 409 /\ last.detail = "Hospital ID already exists"
           /\ ~last.wrote /\ last.pk = 0 /\ last.created = 0

(* C5 witness: the 409 answers an id that differs in case from the one     *)
(* registered.                                                             *)
C5_Witness ==
    /\ RegisterDone /\ last.code = 409
    /\ \E h \in RegisteredBefore : h.hospital_id # last.hospital_id

(* C6: when two register_hospital requests for the same identifier both    *)
(* pass the duplicate pre-check, one commits its hospital and admin and    *)
(* the other is rolled back and answered 409; no two hospitals ever have   *)
(* ids equal ignoring case.                                                *)
C6_RaceOneWinner ==
    /\ \A h1, h2 \in hospitals :
          Lower(h1.hospital_id) = Lower(h2.hospital_id) => h1 = h2
    /\ \A h \in hospitals :
          \E u \in users : u.hospital_id = h.id /\ u.role = "admin"
    /\ (RegisterDone /\ last.secret = "vitasage-bootstrap-secret"
           /\ Utf8Len(last.password) <= BcryptMaxBytes
           /\ RegisteredBefore # {}) =>
           /\ last.code = 409
           /\ ~last.wrote /\ last.pk = 0 /\ last.created = 0

(* C6 witness: the 409 comes from the constraint, not from the pre-check:  *)
(* the request had passed the pre-check before the other committed.        *)
C6_Witness ==
    /\ RegisterDone /\ last.code = 409
    /\ last.detail = "A record with these details already exists"
    /\ \E h \in RegisteredBefore : h.hospital_id # last.hospital_id

(* The users stored, before a create_user request, under its caller's      *)
(* hospital with the username it names, up to case and whitespace.         *)
SameNameBefore ==
    {u \in users : /\ u.hospital_id = UserById(last.caller).hospital_id
                   /\ SameUpToCaseAndSpace(u.username, last.username)
                   /\ u.id # last.created}

SameNameElsewhere ==
    {u \in users : /\ u.hospital_id # UserById(last.caller).hospital_id
                   /\ SameUpToCaseAndSpace(u.username, last.username)}

ValidCreate ==
    /\ CreateDone /\ last.role \in {"admin", "doctor", "staff"}
    /\ Utf8Len(last.password) <= BcryptMaxBytes

(* C7: create_user with a username that normalizes to one stored under the *)
(* admin's hospital fails with 409 Conflict and adds no user, and succeeds *)
(* when the name is stored under another hospital only.  The code does not *)
(* catch the constraint violation: the answer is 500.                      *)
C7_DuplicateUsernameConflict ==
    ValidCreate =>
        /\ SameNameBefore # {} =>
              last.code = 409 /\ ~last.wrote /\ last.created = 0
        /\ (SameNameBefore = {} /\ SameNameElsewhere # {}) => last.code = 201

(* C8: list_users returns the users of the caller's hospital only,         *)
(* create_user stores the user under the caller's hospital, and a toggle   *)
(* of a user of another hospital is answered 404 and changes nothing.      *)
C8_TenantIsolation ==
    /\ (last.op = "list_users" /\ last.code = 200) =>
          last.result = {u.id : u \in {x \in users :
                            x.hospital_id = UserById(last.caller).hospital_id}}
    /\ (CreateDone /\ last.code = 201) =>
          UserById(last.created).hospital_id = UserById(last.caller).hospital_id
    /\ \A u \in users :
          (ToggleDone /\ last.target = u.id
              /\ u.hospital_id # UserById(last.caller).hospital_id) =>
              last.code = 404 /\ ~last.wrote /\ u.status = last.old

(* C8 witness: an admin names the id of a user of another hospital.        *)
C8_Witness ==
    /\ ToggleDone /\ last.code = 404
    /\ \E u \in users : /\ u.id = last.target
                        /\ u.hospital_id # UserById(last.caller).hospital_id

(* C9 as claimed: two consecutive successful toggles of a user leave the   *)
(* status at the value the first one found, be it true, false or unset.    *)
C9_DoubleToggleAsClaimed ==
    (ToggleDone /\ last.code = 200 /\ last.prevOld # "") =>
        UserById(last.target).status = last.prevOld

(* C9 amended: they do when the first toggle found true or false; an unset *)
(* status becomes true with the first toggle and false with the second.    *)
C9_DoubleToggle ==
    (ToggleDone /\ last.code = 200) =>
        /\ last.prevOld \in {"true", "false"} =>
              UserById(last.target).status = last.prevOld
        /\ last.prevOld = "null" =>
              last.old = "true" /\ UserById(last.target).status = "false"
        /\ last.old = "null" => UserById(last.target).status = "true"

(* C9 witness: the second of two toggles of a user found disabled.         *)
C9_Witness ==
    /\ ToggleDone /\ last.code = 200 /\ last.prevOld = "false"
    /\ UserById(last.target).status = "false"

EveryHospitalHasAdmin ==
    \A h \in hospitals :
        \E u \in users : u.hospital_id = h.id /\ u.role = "admin"

(* C11: in every committed state each Hospital row has its admin User row, *)
(* and a register_hospital call that fails leaves neither the hospital nor *)
(* the admin behind.  The refresh of the two rows follows the commit       *)
(* inside the try block: when it fails the call is answered 500 and both   *)
(* rows stay.                                                              *)
C11_AtomicBootstrap ==
    /\ EveryHospitalHasAdmin
    /\ (RegisterDone /\ last.code # 201) =>
          /\ ~\E h \in hospitals : h.id = last.pk
          /\ ~\E u \in users : u.id = last.created


(* The users of a hospital that a login request names, whatever their      *)
(* password.                                                               *)
UsersNamed(h) ==
    {u \in users : /\ u.hospital_id = h.id
                   /\ SameUpToCaseAndSpace(u.username, last.username)}

(* What can be wrong with a login request. *)
OversizedPassword == Utf8Len(last.password) > BcryptMaxBytes
UnknownTenant == NamedHospitals = {}
InactiveTenant == \E h \in NamedHospitals : h.is_active = "false"
UnknownUsername == \E h \in NamedHospitals : UsersNamed(h) = {}
DisabledUser == \E h \in NamedHospitals : \E u \in UsersNamed(h) : u.status = "false"
WrongPassword ==
    \E h \in NamedHospitals :
        \E u \in UsersNamed(h) : u.password_hash # Hash(last.password)

(* What the client sees of a response. *)
ClientView == [code |-> last.code, detail |-> last.detail, token |-> last.token]

(* C12: a login fails when the password is oversized, the tenant unknown   *)
(* or inactive, the username unknown, the user disabled or the password    *)
(* wrong, and whichever it is the client sees the same response: 401,      *)
(* "Invalid credentials", no token.                                        *)
C12_FailedLoginIndistinguishable ==
    (LoginDone /\ (\/ OversizedPassword \/ UnknownTenant \/ InactiveTenant
                   \/ UnknownUsername \/ DisabledUser \/ WrongPassword
                   \/ last.code # 200)) =>
        ClientView = [code |-> 401, detail |-> "Invalid credentials",
                      token |-> NoToken]

(* C12 witness: the 401 answers the correct password of a disabled user of *)
(* an active hospital.                                                     *)
C12_Witness ==
    /\ LoginDone /\ last.code = 401
    /\ ~OversizedPassword /\ ~InactiveTenant /\ ~WrongPassword
    /\ DisabledUser


(* C13: the token of a successful login carries the id and the role of the *)
(* authenticated user and the external id of that user's hospital, and it  *)
(* is minted once the last-login update and the LOGIN_SUCCESS row are      *)
(* committed.  The code puts into the token the hospital id the client     *)
(* typed, trimmed: it differs in letter case from the external id stored.  *)
C13_TokenClaims ==
    (LoginDone /\ last.code = 200) =>
        \E u \in users, h \in hospitals :
            /\ h.id = u.hospital_id
            /\ SameUpToCaseAndSpace(u.username, last.username)
            /\ last.token = [user_id |-> u.id, role |-> u.role,
                             hospital_id |-> h.hospital_id]
            /\ u.last_login = clock - 1
            /\ last.audits = 1
            /\ LastAudit.action = "LOGIN_SUCCESS" /\ LastAudit.user_id = u.id


AdminOnlyDone == last.op \in {"list_users", "create_user", "toggle_user_status"}

(* C14: list_users, create_user and toggle_user_status called with the     *)
(* token of an enabled user whose role is not admin fail with 403 and      *)
(* neither return nor change a row; get_me called with the token of an     *)
(* enabled user of any role returns that user's record.                    *)
C14_AdminOnly ==
    \A u \in users :
        /\ (AdminOnlyDone /\ last.caller = u.id /\ u.status # "false"
               /\ u.role # "admin") =>
              /\ last.code = 403
              /\ ~last.wrote /\ last.result = {} /\ last.created = 0
        /\ (last.op = "get_me" /\ last.caller = u.id /\ u.status # "false") =>
              last.code = 200 /\ last.result = {u.id}

(* C14 witness: a doctor's create_user is answered 403. *)
C14_Witness ==
    /\ last.op = "create_user" /\ last.code = 403
    /\ UserById(last.caller).role = "doctor"
    /\ UserById(last.caller).status = "true"


ProtectedDone == AdminOnlyDone \/ last.op = "get_me"

(* The status of a user when the request just answered arrived. *)
StatusAtRequest(u) ==
    IF last.op = "toggle_user_status" /\ last.code = 200 /\ last.target = u.id
    THEN last.old ELSE u.status

(* C15: a protected request that bears the token of a user is answered 401 *)
(* exactly when that user's status is false as the request arrives: the    *)
(* token stops working once a toggle has disabled the user and works again *)
(* once a toggle has enabled the user.                                     *)
C15_DisabledTokenRejected ==
    \A u \in users :
        (ProtectedDone /\ last.caller = u.id) =>
            (last.code = 401 <=> StatusAtRequest(u) = "false")

(* C15 witness: get_me is answered 200 for a token that was answered 401   *)
(* while its user was disabled, after the toggle that enabled the user.    *)
C15_Witness ==
    /\ last.op = "get_me" /\ last.code = 200
    /\ last.denied # 0 /\ last.denied = last.caller


(* C16: a register_hospital call whose register_secret is not the          *)
(* configured one fails with 403 and creates no row, whatever its password *)
(* and whichever hospitals exist; every call that creates a hospital       *)
(* presented the configured secret.                                        *)
C16_SecretGuardsRegistration ==
    /\ (RegisterDone /\ last.secret # "vitasage-bootstrap-secret") =>
          /\ last.code = 403 /\ last.detail = "Invalid register secret"
          /\ ~last.hashed /\ ~last.wrote /\ last.pk = 0 /\ last.created = 0
    /\ (RegisterDone /\ (last.code = 201 \/ last.wrote \/ last.pk # 0)) =>
          last.secret = "vitasage-bootstrap-secret"
    /\ \A r \in Requests :
          pc[r] # "idle" => req[r].secret = "vitasage-bootstrap-secret"

(* C16 witness: the 403 answers a wrong secret sent with an oversized      *)
(* password while hospitals are registered.                                *)
C16_Witness ==
    /\ RegisterDone /\ last.code = 403 /\ last.secret = "guess"
    /\ Utf8Len(last.password) > BcryptMaxBytes
    /\ hospitals # {}


(* C17: a register_hospital call that fails at the flush or the commit,    *)
(* by a uniqueness violation or another exception, and a create_user call  *)
(* that fails at its commit have changed no committed row when the error   *)
(* is answered: the hospital flushed by the call is not stored.            *)
C17_FailureRollsBack ==
    /\ (RegisterDone /\ last.code \in {409, 500} /\ last.created = 0) =>
          /\ ~last.wrote
          /\ ~\E h \in hospitals : h.id = last.pk
    /\ (CreateDone /\ last.code = 500) =>
          ~last.wrote /\ last.created = 0

(* C17 witness: the 500 answers a registration whose Hospital row had been *)
(* flushed.                                                                *)
C17_Witness ==
    /\ RegisterDone /\ last.code = 500
    /\ last.pk # 0 /\ last.created = 0


(* C18: a login with the password of a user succeeds when the active flag  *)
(* of the hospital or the status of the user is unset and neither is       *)
(* false.                                                                  *)
C18_NullTreatedActive ==
    \A h \in NamedHospitals : \A u \in NamedUsers(h) :
        (/\ LoginDone
         /\ Utf8Len(last.password) <= BcryptMaxBytes
         /\ h.is_active = "null" \/ u.status = "null"
         /\ h.is_active # "false" /\ u.status # "false") =>
            last.code = 200 /\ last.token.user_id = u.id

(* C18 witness: the login of a user whose status is unset succeeds. *)
C18_Witness ==
    /\ LoginDone /\ last.code = 200
    /\ UserById(last.token.user_id).status = "null"


(* What a login step that is answered `code` may change. *)
LoginFrame(code, user_id) ==
    /\ hospitals' = hospitals
    /\ UNCHANGED <<hospSeq, userSeq, pc, req, dbEdits>>
    /\ SubSeq(audit', 1, Len(audit)) = audit
    /\ IF code = 200
       THEN \E u \in users :
               /\ u.id = user_id
               /\ users' = (users \ {u}) \cup {[u EXCEPT !.last_login = clock]}
               /\ Len(audit') = Len(audit) + 1
               /\ audit'[Len(audit')].action = "LOGIN_SUCCESS"
               /\ audit'[Len(audit')].user_id = u.id
       ELSE /\ users' = users
            /\ Len(audit') \in {Len(audit), Len(audit) + 1}

(* C19: a login step changes no Hospital row; when it succeeds it sets the *)
(* last_login of the authenticated user, of that user alone, in the step   *)
(* that appends the LOGIN_SUCCESS row; when it fails it changes no User    *)
(* row and nothing else but the audit log.                                 *)
C19_LoginFrame ==
    [][last'.op = "login" => LoginFrame(last'.code, last'.token.user_id)]_vars

(* C19 witness: a successful login has stamped its user and appended the   *)
(* LOGIN_SUCCESS row.                                                      *)
C19_Witness ==
    /\ LoginDone /\ last.code = 200 /\ last.audits = 1
    /\ UserById(last.token.user_id).last_login = clock - 1
    /\ LastAudit.action = "LOGIN_SUCCESS"


(* C20: every stored username is its own trimmed lowercase form and every  *)
(* stored hospital id its own trimmed form, so that the lookups of login,  *)
(* which ignore case, match a user only by the exact stored name and match *)
(* at most one hospital.                                                   *)
C20_StoredNormalized ==
    /\ \A u \in users : u.username = Lower(Strip(u.username))
    /\ \A h \in hospitals : h.hospital_id = Strip(h.hospital_id)
    /\ \A h \in hospitals, un \in LoginUsernames :
          \A u \in UsersByName(users, NormUsername(un), h.id) :
              u.username = NormUsername(un)
    /\ \A hid \in LoginHospIds :
          Cardinality(HospitalsById(hospitals, NormHospId(hid))) <= 1

(* C20 witness: create_user has stored a name given in another spelling. *)
C20_Witness ==
    /\ CreateDone /\ last.code = 201
    /\ UserById(last.created).username # last.username
    /\ UserById(last.created).username = Lower(Strip(last.username))

=============================================================================
